---- MODULE Spec2Model ----
(***************************************************************************)
(* State-machine model of pktfwd/utils.py: chip detection                  *)
(* (is_concentrator_sx1302), the configuration materialization             *)
(* (update_global_conf), the concentrator reset (run_reset_lgw) and        *)
(* the supervised launch (retry_start_concentrator) under its tenacity     *)
(* retry policy wait_fixed / stop_after_attempt / before_sleep_log.        *)
(*                                                                         *)
(* One behaviour is one call of one function of the module.  The operating *)
(* system's answer to each subprocess invocation is a nondeterministic     *)
(* choice: the child cannot be started, or it runs and exits with a        *)
(* status.  Signals delivered to the calling process itself                *)
(* (KeyboardInterrupt, SystemExit) are outside the model.                  *)
(***************************************************************************)
EXTENDS Integers, Sequences, FiniteSets, TLC

VARIABLES
    pc,              \* control position of the running call
    fn,              \* name of the function that was called
    is_sx1302,       \* argument is_sx1302
    spi_bus,         \* argument spi_bus
    reset_lgw_pin,   \* argument reset_lgw_pin
    attempt_number,  \* retry_state.attempt_number of the retry decorator
    reset_calls,     \* number of times run_reset_lgw has been entered
    exception,       \* exception raised by the current attempt, or "none"
    events,          \* observable events so far: subprocess runs, logs, sleeps
    completed,       \* answers of the subprocesses run in the current attempt
    result,          \* how the call ended: [kind, value]
    region,          \* argument region
    fs,              \* the files: path -> file content
    fs_before,       \* the files as they were when the call was made
    dest_writable    \* whether global_conf.json can be opened for writing

\* the arguments and files of update_global_conf
conf_vars == <<region, fs, fs_before, dest_writable>>

vars == <<pc, fn, is_sx1302, spi_bus, reset_lgw_pin, attempt_number,
          reset_calls, exception, events, completed, result, conf_vars>>

----------------------------------------------------------------------------
(* Program constants *)

LORA_PKT_FWD_RETRY_SLEEP_SECONDS == 2
LORA_PKT_FWD_MAX_TRIES == 5

(* Bounds of the model *)

MaxExit == 1

(* Input sets *)

\* returncode of a child that ran: 0..MaxExit, or -9 when killed by SIGKILL
ExitStatuses == {-9} \cup (0..MaxExit)

\* what the operating system does with one subprocess invocation
Children ==
    {[started |-> FALSE, returncode |-> 0]}
        \cup {[started |-> TRUE, returncode |-> r] : r \in ExitStatuses}

SpiBuses == {"spidev0.0", "spidev1.2"}
Pins == {0, 17}

util_chip_id_filepath == "/opt/iotloragateway/packet_forwarder/sx1302/util_chip_id/chip_id"
sx1301_reset_lgw_filepath == "/opt/iotloragateway/packet_forwarder/reset_lgw.sh"
sx1302_reset_lgw_filepath == "/opt/iotloragateway/packet_forwarder/sx1302/tools/reset_lgw.sh"
sx1302_lora_pkt_fwd_filepath == "/opt/iotloragateway/packet_forwarder/sx1302/packet_forwarder/lora_pkt_fwd"
sx1301_lora_pkt_fwd_dir == "/opt/iotloragateway/packet_forwarder/sx1301"

----------------------------------------------------------------------------
(* Pure helpers *)

Digit(d) ==
    CASE d = 0 -> "0" [] d = 1 -> "1" [] d = 2 -> "2" [] d = 3 -> "3"
      [] d = 4 -> "4" [] d = 5 -> "5" [] d = 6 -> "6" [] d = 7 -> "7"
      [] d = 8 -> "8" [] d = 9 -> "9"

RECURSIVE NatStr(_)
NatStr(n) == IF n < 10 THEN Digit(n) ELSE NatStr(n \div 10) \o Digit(n % 10)

\* str(reset_lgw_pin): decimal representation of an int
str(n) == IF n < 0 THEN "-" \o NatStr(-n) ELSE NatStr(n)

\* subprocess.run(cmd, check=check): the exception it raises, or "none".
\* A child that cannot be started raises an OSError (FileNotFoundError,
\* PermissionError); with check=True a non-zero returncode raises
\* CalledProcessError; otherwise the CompletedProcess is returned.
SubprocessRunChecksAlways(child, check) ==
    IF ~child.started THEN "OSError"
    ELSE IF child.returncode # 0 THEN "CalledProcessError"
    ELSE "none"

SubprocessRun(child, check) ==
    IF ~child.started THEN "OSError"
    ELSE IF check /\ child.returncode # 0 THEN "CalledProcessError"
    ELSE "none"

Event(op, argv, seconds, exc) ==
    [op |-> op, argv |-> argv, seconds |-> seconds, exc |-> exc]

\* one subprocess.run call: its command line and the exception it raised
RunEvent(argv, exc) == Event("run", argv, 0, exc)

NoResult == [kind |-> "none", value |-> ""]

----------------------------------------------------------------------------
(* run_reset_lgw and the command lines *)

\* run_reset_lgw: the reset script for the chip version
ResetLgwFilepathSwapped(sx1302) ==
    IF sx1302 THEN sx1301_reset_lgw_filepath ELSE sx1302_reset_lgw_filepath

ResetLgwFilepath(sx1302) ==
    IF sx1302 THEN sx1302_reset_lgw_filepath ELSE sx1301_reset_lgw_filepath

\* argv of the reset invocation: [reset_lgw_filepath, "stop"|"start", pin_str]
ResetArgv(sx1302, verb, pin) == <<ResetLgwFilepath(sx1302), verb, str(pin)>>

\* retry_start_concentrator: the forwarder binary for the chip version
LoraPktFwdFilepathNoBus(sx1302, bus) ==
    IF sx1302 THEN sx1302_lora_pkt_fwd_filepath
    ELSE sx1301_lora_pkt_fwd_dir \o "/lora_pkt_fwd"

LoraPktFwdFilepath(sx1302, bus) ==
    IF sx1302 THEN sx1302_lora_pkt_fwd_filepath
    ELSE sx1301_lora_pkt_fwd_dir \o "/lora_pkt_fwd_" \o bus

\* is_concentrator_sx1302: [util_chip_id_filepath, "-d", "/dev/{}".format(spi_bus)]
UtilChipIdCmd(bus) == <<util_chip_id_filepath, "-d", "/dev/" \o bus>>

\* is_concentrator_sx1302: "except Exception" catches every exception
\* subprocess.run raises
ExceptOnlyCalledProcessError(exc) == exc = "CalledProcessError"

ExceptException(exc) == exc \in {"OSError", "CalledProcessError"}

\* is_concentrator_sx1302: True when subprocess.run returned, False when
\* the except clause caught the exception
IsConcentratorSx1302Result(exc) ==
    IF exc = "none" THEN [kind |-> "return", value |-> "True"]
    ELSE IF ExceptException(exc) THEN [kind |-> "return", value |-> "False"]
    ELSE [kind |-> "raise", value |-> exc]

----------------------------------------------------------------------------
(* The retry policy of retry_start_concentrator *)

\* retry=retry_if_exception_type() (the decorator's default): any Exception
RetryIfExceptionOnlyCalledProcessError(exc) == exc = "CalledProcessError"

RetryAlways(exc) == TRUE

RetryIfException(exc) == exc # "none"

\* stop=stop_after_attempt(LORA_PKT_FWD_MAX_TRIES)
StopAfterAttemptOffByOne(n) == n > LORA_PKT_FWD_MAX_TRIES

StopAfterAttempt(n) == n >= LORA_PKT_FWD_MAX_TRIES

\* wait=wait_fixed(LORA_PKT_FWD_RETRY_SLEEP_SECONDS)
WaitFixedDoubled == 2 * LORA_PKT_FWD_RETRY_SLEEP_SECONDS

WaitFixed == LORA_PKT_FWD_RETRY_SLEEP_SECONDS

\* the decorator has no retry_error_callback and reraise is off: exhaustion
\* raises RetryError to the caller
ExhaustedResultSwallowed == [kind |-> "return", value |-> "None"]

ExhaustedResult == [kind |-> "raise", value |-> "RetryError"]

----------------------------------------------------------------------------
(* Files and JSON documents *)

root_dir == "/opt/iotloragateway/packet_forwarder"
sx1301_region_configs_dir == "/opt/iotloragateway/packet_forwarder/sx1301/lora_templates_sx1301"
sx1302_region_configs_dir == "/opt/iotloragateway/packet_forwarder/sx1302/lora_templates_sx1302"

\* pktfwd.config.region_config_filenames.REGION_CONFIG_FILENAMES
REGION_CONFIG_FILENAMES ==
    ("EU868" :> "EU-global_conf.json") @@ ("US915" :> "US-global_conf.json")

\* the regions a caller may pass: two of the table and one that is not
Regions == {"EU868", "US915", "XX000"}

\* A JSON value is an object (a set of <<key, string>> members) or a scalar;
\* a JSON document is a set of <<key, value>> pairs.
Obj(members) == [isobj |-> TRUE, members |-> members, scalar |-> ""]
Scalar(x) == [isobj |-> FALSE, members |-> {}, scalar |-> x]

\* A file: absent, or bytes that may or may not parse as JSON; fmt is the
\* layout of the bytes (a packaged template is indented, json.dump writes
\* one line).
Absent == [exists |-> FALSE, json |-> FALSE, fmt |-> "", doc |-> {}]
TextFile(fmt, doc) == [exists |-> TRUE, json |-> TRUE, fmt |-> fmt, doc |-> doc]
Malformed == [exists |-> TRUE, json |-> FALSE, fmt |-> "indented", doc |-> {}]

HasKey(pairs, k) == \E q \in pairs : q[1] = k
GetItem(pairs, k) == (CHOOSE q \in pairs : q[1] = k)[2]
\* d[k] = v on a dict
SetItem(pairs, k, v) == {q \in pairs : q[1] # k} \cup {<<k, v>>}

\* get_region_filename(region): REGION_CONFIG_FILENAMES[region]
GetRegionFilenameDefaulting(r) ==
    IF r \in DOMAIN REGION_CONFIG_FILENAMES
    THEN [exc |-> "none", value |-> REGION_CONFIG_FILENAMES[r]]
    ELSE [exc |-> "none", value |-> "EU-global_conf.json"]

GetRegionFilename(r) ==
    IF r \in DOMAIN REGION_CONFIG_FILENAMES
    THEN [exc |-> "none", value |-> REGION_CONFIG_FILENAMES[r]]
    ELSE [exc |-> "KeyError", value |-> ""]

\* "%s/%s" % (dir, name)
JoinPath(dir, name) == dir \o "/" \o name

\* replace_sx1301_global_conf_with_regional: "%s/%s" % (root_dir, "global_conf.json")
Sx1301GlobalConfigFilepath == JoinPath(root_dir, "global_conf.json")

\* replace_sx1302_global_conf_with_regional: the destination is in the
\* regional directory itself
Sx1302GlobalConfigFilepath == JoinPath(sx1302_region_configs_dir, "global_conf.json")

\* the paths of the model's file system
Paths ==
    {JoinPath(d, REGION_CONFIG_FILENAMES[r]) :
        d \in {sx1301_region_configs_dir, sx1302_region_configs_dir},
        r \in DOMAIN REGION_CONFIG_FILENAMES}
        \cup {Sx1301GlobalConfigFilepath, Sx1302GlobalConfigFilepath}

\* json.load(open(path)): FileNotFoundError from open, JSONDecodeError from
\* the parser, otherwise the document
JsonLoad(file) ==
    IF ~file.exists THEN [exc |-> "FileNotFoundError", doc |-> {}]
    ELSE IF ~file.json THEN [exc |-> "JSONDecodeError", doc |-> {}]
    ELSE [exc |-> "none", doc |-> file.doc]

\* json.dump(doc, file): one line, same members
JsonDump(doc) == TextFile("one-line", doc)

\* "/dev/%s" % spi_bus
ComDir(bus) == "/dev/" \o bus

\* new_global_conf['SX130x_conf']['com_dir'] = "/dev/%s" % spi_bus
InjectSpiBusReplacingSection(doc, bus) ==
    IF ~HasKey(doc, "SX130x_conf") THEN [exc |-> "KeyError", doc |-> doc]
    ELSE IF ~GetItem(doc, "SX130x_conf").isobj
    THEN [exc |-> "TypeError", doc |-> doc]
    ELSE [exc |-> "none",
          doc |-> SetItem(doc, "SX130x_conf", Obj({<<"com_dir", ComDir(bus)>>}))]

InjectSpiBus(doc, bus) ==
    IF ~HasKey(doc, "SX130x_conf") THEN [exc |-> "KeyError", doc |-> doc]
    ELSE IF ~GetItem(doc, "SX130x_conf").isobj
    THEN [exc |-> "TypeError", doc |-> doc]
    ELSE [exc |-> "none",
          doc |-> SetItem(doc, "SX130x_conf",
                     Obj(SetItem(GetItem(doc, "SX130x_conf").members,
                                 "com_dir", ComDir(bus))))]

\* shutil.copyfile(src, dst): opens src for reading, then dst for writing,
\* and copies the bytes
CopyfileOpeningDestFirst(files, src, dst, writable) ==
    IF ~writable THEN [exc |-> "PermissionError", fs |-> files]
    ELSE IF ~files[src].exists
    THEN [exc |-> "FileNotFoundError",
          fs |-> [files EXCEPT ![dst] = TextFile("", {}) ]]
    ELSE [exc |-> "none", fs |-> [files EXCEPT ![dst] = files[src]]]

Copyfile(files, src, dst, writable) ==
    IF ~files[src].exists THEN [exc |-> "FileNotFoundError", fs |-> files]
    ELSE IF ~writable THEN [exc |-> "PermissionError", fs |-> files]
    ELSE [exc |-> "none", fs |-> [files EXCEPT ![dst] = files[src]]]

(* The files a call may find *)

TemplateVariants ==
    {"missing", "malformed", "full", "no_com_dir", "no_SX130x_conf",
     "scalar_SX130x_conf"}

\* the radio section of a packaged template
RadioSection(gen, r, variant) ==
    {<<"com_type", "SPI">>, <<"lorawan_public", "true">>,
     <<"chip", gen>>, <<"region", r>>}
        \cup (IF variant = "no_com_dir" THEN {}
              ELSE {<<"com_dir", "/dev/spidev0.0">>})

\* the template of region r for chip generation gen
TemplateFile(gen, r, variant) ==
    LET section == IF gen = "sx1301" THEN "SX1301_conf" ELSE "SX130x_conf"
        gateway == <<"gateway_conf", Obj({<<"gateway_ID", "AA555A0000000000">>})>>
    IN  CASE variant = "missing" -> Absent
          [] variant = "malformed" -> Malformed
          [] variant = "no_SX130x_conf" -> TextFile("indented", {gateway})
          [] variant = "scalar_SX130x_conf" ->
                TextFile("indented", {<<section, Scalar("null")>>, gateway})
          [] OTHER ->
                TextFile("indented",
                    {<<section, Obj(RadioSection(gen, r, variant))>>, gateway})

\* a global_conf.json left by an earlier run
OldGlobalConf(gen) ==
    JsonDump({<<"SX130x_conf",
                Obj({<<"com_dir", "/dev/spidev9.9">>, <<"chip", gen>>})>>})

\* the file system with the EU868 templates in the given variant, the US915
\* templates intact, and both destinations absent or left by an earlier run
InitialFs(variant, old) ==
    [p \in Paths |->
        CASE p = JoinPath(sx1301_region_configs_dir, "EU-global_conf.json") ->
                TemplateFile("sx1301", "EU868", variant)
          [] p = JoinPath(sx1302_region_configs_dir, "EU-global_conf.json") ->
                TemplateFile("sx1302", "EU868", variant)
          [] p = JoinPath(sx1301_region_configs_dir, "US-global_conf.json") ->
                TemplateFile("sx1301", "US915", "full")
          [] p = JoinPath(sx1302_region_configs_dir, "US-global_conf.json") ->
                TemplateFile("sx1302", "US915", "full")
          [] p = Sx1301GlobalConfigFilepath ->
                IF old THEN OldGlobalConf("sx1301") ELSE Absent
          [] p = Sx1302GlobalConfigFilepath ->
                IF old THEN OldGlobalConf("sx1302") ELSE Absent]

----------------------------------------------------------------------------
(* Initial state: a caller holding the arguments, nothing called yet *)

Init ==
    /\ pc = "Idle"
    /\ fn = "none"
    /\ is_sx1302 \in BOOLEAN
    /\ spi_bus \in SpiBuses
    /\ reset_lgw_pin \in Pins
    /\ attempt_number = 0
    /\ reset_calls = 0
    /\ exception = "none"
    /\ events = <<>>
    /\ completed = <<>>
    /\ result = NoResult
    /\ region = "EU868"
    /\ fs = InitialFs("full", TRUE)
    /\ fs_before = fs
    /\ dest_writable = TRUE

(* is_concentrator_sx1302(util_chip_id_filepath, spi_bus) *)

is_concentrator_sx1302 ==
    /\ pc = "Idle"
    /\ \E child \in Children :
        LET exc == SubprocessRun(child, TRUE) IN
        /\ events' = Append(events, RunEvent(UtilChipIdCmd(spi_bus), exc))
        /\ completed' = <<child>>
        /\ result' = IsConcentratorSx1302Result(exc)
        /\ pc' = IF IsConcentratorSx1302Result(exc).kind = "return"
                 THEN "Returned" ELSE "Raised"
    /\ fn' = "is_concentrator_sx1302"
    /\ UNCHANGED conf_vars
    /\ UNCHANGED <<is_sx1302, spi_bus, reset_lgw_pin, attempt_number,
                   reset_calls, exception>>

(* retry_start_concentrator(...): the decorator starts the first attempt *)

retry_start_concentrator ==
    /\ pc = "Idle"
    /\ fn' = "retry_start_concentrator"
    /\ attempt_number' = 1
    /\ pc' = "Resetting"
    /\ UNCHANGED conf_vars
    /\ UNCHANGED <<is_sx1302, spi_bus, reset_lgw_pin, reset_calls, exception,
                   events, completed, result>>

(* run_reset_lgw, first invocation: [reset_lgw_filepath, "stop", pin] *)

run_reset_lgw_stop_swallowing ==
    /\ pc = "Resetting"
    /\ reset_calls' = reset_calls + 1
    /\ \E child \in Children :
        LET exc == SubprocessRun(child, FALSE) IN
        /\ events' = Append(events,
                RunEvent(ResetArgv(is_sx1302, "stop", reset_lgw_pin), exc))
        /\ completed' = <<child>>
        /\ exception' = "none"
        /\ pc' = "ResettingStart"
    /\ UNCHANGED conf_vars
    /\ UNCHANGED <<fn, is_sx1302, spi_bus, reset_lgw_pin, attempt_number,
                   result>>

run_reset_lgw_stop ==
    /\ pc = "Resetting"
    /\ reset_calls' = reset_calls + 1
    /\ \E child \in Children :
        LET exc == SubprocessRun(child, FALSE) IN
        /\ events' = Append(events,
                RunEvent(ResetArgv(is_sx1302, "stop", reset_lgw_pin), exc))
        /\ completed' = <<child>>
        /\ exception' = exc
        /\ pc' = IF exc = "none" THEN "ResettingStart" ELSE "AttemptDone"
    /\ UNCHANGED conf_vars
    /\ UNCHANGED <<fn, is_sx1302, spi_bus, reset_lgw_pin, attempt_number,
                   result>>

(* run_reset_lgw, second invocation: [reset_lgw_filepath, "start", pin] *)

run_reset_lgw_start ==
    /\ pc = "ResettingStart"
    /\ \E child \in Children :
        LET exc == SubprocessRun(child, FALSE) IN
        /\ events' = Append(events,
                RunEvent(ResetArgv(is_sx1302, "start", reset_lgw_pin), exc))
        /\ completed' = Append(completed, child)
        /\ exception' = exc
        /\ pc' = IF exc = "none" THEN "Launching" ELSE "AttemptDone"
    /\ UNCHANGED conf_vars
    /\ UNCHANGED <<fn, is_sx1302, spi_bus, reset_lgw_pin, attempt_number,
                   reset_calls, result>>

(* subprocess.run(<forwarder binary>): blocks until the child has exited *)

start_lora_pkt_fwd_rematerializing ==
    /\ pc = "Launching"
    /\ \E child \in Children :
        LET exc == SubprocessRun(child, FALSE) IN
        /\ events' = Append(events,
                RunEvent(<<LoraPktFwdFilepath(is_sx1302, spi_bus)>>, exc))
        /\ completed' = Append(completed, child)
        /\ exception' = exc
    /\ pc' = "AttemptDone"
    /\ fs' = [fs EXCEPT ![Sx1301GlobalConfigFilepath] =
                 fs[JoinPath(sx1301_region_configs_dir, "EU-global_conf.json")]]
    /\ UNCHANGED <<region, fs_before, dest_writable>>
    /\ UNCHANGED <<fn, is_sx1302, spi_bus, reset_lgw_pin, attempt_number,
                   reset_calls, result>>

start_lora_pkt_fwd ==
    /\ pc = "Launching"
    /\ \E child \in Children :
        LET exc == SubprocessRun(child, FALSE) IN
        /\ events' = Append(events,
                RunEvent(<<LoraPktFwdFilepath(is_sx1302, spi_bus)>>, exc))
        /\ completed' = Append(completed, child)
        /\ exception' = exc
    /\ pc' = "AttemptDone"
    /\ UNCHANGED conf_vars
    /\ UNCHANGED <<fn, is_sx1302, spi_bus, reset_lgw_pin, attempt_number,
                   reset_calls, result>>

(* The decorator after an attempt, outcome not to be retried: the body's   *)
(* return value is returned (an exception outside the retry predicate      *)
(* would be re-raised).                                                    *)

retry_return ==
    /\ pc = "AttemptDone"
    /\ ~RetryIfException(exception)
    /\ result' = IF exception = "none"
                 THEN [kind |-> "return", value |-> "None"]
                 ELSE [kind |-> "raise", value |-> exception]
    /\ pc' = IF exception = "none" THEN "Success" ELSE "Failed"
    /\ UNCHANGED conf_vars
    /\ UNCHANGED <<fn, is_sx1302, spi_bus, reset_lgw_pin, attempt_number,
                   reset_calls, exception, events, completed>>

(* The decorator after a failed attempt with the budget exhausted *)

retry_stop ==
    /\ pc = "AttemptDone"
    /\ RetryIfException(exception)
    /\ StopAfterAttempt(attempt_number)
    /\ result' = ExhaustedResult
    /\ pc' = "Failed"
    /\ UNCHANGED conf_vars
    /\ UNCHANGED <<fn, is_sx1302, spi_bus, reset_lgw_pin, attempt_number,
                   reset_calls, exception, events, completed>>

(* The decorator after a failed attempt with budget left: before_sleep_log *)
(* logs "Retrying <fn> in <seconds> seconds as it raised <exception>."     *)

before_sleep_silent ==
    /\ pc = "AttemptDone"
    /\ RetryIfException(exception)
    /\ ~StopAfterAttempt(attempt_number)
    /\ pc' = "BackingOff"
    /\ UNCHANGED conf_vars
    /\ UNCHANGED <<fn, is_sx1302, spi_bus, reset_lgw_pin, attempt_number,
                   reset_calls, exception, events, completed, result>>

before_sleep ==
    /\ pc = "AttemptDone"
    /\ RetryIfException(exception)
    /\ ~StopAfterAttempt(attempt_number)
    /\ events' = Append(events, Event("log", <<fn>>, WaitFixed, exception))
    /\ pc' = "BackingOff"
    /\ UNCHANGED conf_vars
    /\ UNCHANGED <<fn, is_sx1302, spi_bus, reset_lgw_pin, attempt_number,
                   reset_calls, exception, completed, result>>

(* The decorator's sleep: the attempt counter is advanced, the thread      *)
(* sleeps for the fixed wait, and the next attempt starts at the reset.    *)

retry_sleep_skipping_reset ==
    /\ pc = "BackingOff"
    /\ attempt_number' = attempt_number + 1
    /\ events' = Append(events, Event("sleep", <<>>, WaitFixed, ""))
    /\ exception' = "none"
    /\ completed' = <<>>
    /\ pc' = "Launching"
    /\ UNCHANGED conf_vars
    /\ UNCHANGED <<fn, is_sx1302, spi_bus, reset_lgw_pin, reset_calls, result>>

retry_sleep_forever ==
    /\ pc = "BackingOff"
    /\ UNCHANGED <<pc, attempt_number, events, exception, completed>>
    /\ UNCHANGED conf_vars
    /\ UNCHANGED <<fn, is_sx1302, spi_bus, reset_lgw_pin, reset_calls, result>>

retry_sleep_no_wait ==
    /\ pc = "BackingOff"
    /\ attempt_number' = attempt_number + 1
    /\ exception' = "none"
    /\ completed' = <<>>
    /\ pc' = "Resetting"
    /\ UNCHANGED conf_vars
    /\ UNCHANGED <<fn, is_sx1302, spi_bus, reset_lgw_pin, reset_calls, events,
                   result>>

retry_sleep ==
    /\ pc = "BackingOff"
    /\ attempt_number' = attempt_number + 1
    /\ events' = Append(events, Event("sleep", <<>>, WaitFixed, ""))
    /\ exception' = "none"
    /\ completed' = <<>>
    /\ pc' = "Resetting"
    /\ UNCHANGED conf_vars
    /\ UNCHANGED <<fn, is_sx1302, spi_bus, reset_lgw_pin, reset_calls, result>>

Next ==
    \/ is_concentrator_sx1302
    \/ retry_start_concentrator
    \/ run_reset_lgw_stop
    \/ run_reset_lgw_start
    \/ start_lora_pkt_fwd
    \/ retry_return
    \/ retry_stop
    \/ before_sleep
    \/ retry_sleep

Spec == Init /\ [][Next]_vars

----------------------------------------------------------------------------
(* update_global_conf *)

\* the end of a materialization: the file operations done, the files as
\* they are left, and the exception raised to the caller or a normal return
ConfFinish(exc, evs, files) ==
    /\ events' = events \o evs
    /\ fs' = files
    /\ exception' = exc
    /\ result' = IF exc = "none" THEN [kind |-> "return", value |-> "None"]
                 ELSE [kind |-> "raise", value |-> exc]
    /\ pc' = IF exc = "none" THEN "Returned" ELSE "Raised"

(* update_global_conf(...): the branch on the chip version *)

update_global_conf_swapped ==
    /\ pc = "Idle"
    /\ fn' = "update_global_conf"
    /\ pc' = IF is_sx1302 THEN "Sx1301Conf" ELSE "Sx1302Conf"
    /\ UNCHANGED conf_vars
    /\ UNCHANGED <<is_sx1302, spi_bus, reset_lgw_pin, attempt_number,
                   reset_calls, exception, events, completed, result>>

update_global_conf ==
    /\ pc = "Idle"
    /\ fn' = "update_global_conf"
    /\ pc' = IF is_sx1302 THEN "Sx1302Conf" ELSE "Sx1301Conf"
    /\ UNCHANGED conf_vars
    /\ UNCHANGED <<is_sx1302, spi_bus, reset_lgw_pin, attempt_number,
                   reset_calls, exception, events, completed, result>>

(* replace_sx1301_global_conf_with_regional: copy the regional file *)

replace_sx1301_global_conf_with_regional ==
    /\ pc = "Sx1301Conf"
    /\ LET name == GetRegionFilename(region)
           src == JoinPath(sx1301_region_configs_dir, name.value)
           dst == Sx1301GlobalConfigFilepath
           copied == Copyfile(fs, src, dst, dest_writable)
           lookup == Event("lookup", <<region>>, 0, name.exc)
       IN  IF name.exc # "none" THEN ConfFinish(name.exc, <<lookup>>, fs)
           ELSE ConfFinish(copied.exc,
                    <<lookup, Event("copyfile", <<src, dst>>, 0, copied.exc)>>,
                    copied.fs)
    /\ UNCHANGED <<fn, is_sx1302, spi_bus, reset_lgw_pin, attempt_number,
                   reset_calls, completed, region, fs_before, dest_writable>>

(* replace_sx1302_global_conf_with_regional: load the regional file,      *)
(* inject the SPI bus, write global_conf.json                             *)

replace_sx1302_global_conf_with_regional ==
    /\ pc = "Sx1302Conf"
    /\ LET name == GetRegionFilename(region)
           src == JoinPath(sx1302_region_configs_dir, name.value)
           dst == Sx1302GlobalConfigFilepath
           loaded == JsonLoad(fs[src])
           injected == InjectSpiBus(loaded.doc, spi_bus)
           lookup == Event("lookup", <<region>>, 0, name.exc)
           read == Event("read", <<src>>, 0, loaded.exc)
       IN  IF name.exc # "none" THEN ConfFinish(name.exc, <<lookup>>, fs)
           ELSE IF loaded.exc # "none"
           THEN ConfFinish(loaded.exc, <<lookup, read>>, fs)
           ELSE IF injected.exc # "none"
           THEN ConfFinish(injected.exc, <<lookup, read>>, fs)
           ELSE IF ~dest_writable
           THEN ConfFinish("PermissionError",
                    <<lookup, read, Event("write", <<dst>>, 0, "PermissionError")>>,
                    fs)
           ELSE ConfFinish("none",
                    <<lookup, read, Event("write", <<dst>>, 0, "none")>>,
                    [fs EXCEPT ![dst] = JsonDump(injected.doc)])
    /\ UNCHANGED <<fn, is_sx1302, spi_bus, reset_lgw_pin, attempt_number,
                   reset_calls, completed, region, fs_before, dest_writable>>

\* a caller about to materialize the configuration: any chip version, bus
\* and region, the EU868 templates in any condition
InitConf ==
    /\ pc = "Idle"
    /\ fn = "none"
    /\ is_sx1302 \in BOOLEAN
    /\ spi_bus \in SpiBuses
    /\ reset_lgw_pin = 17
    /\ attempt_number = 0
    /\ reset_calls = 0
    /\ exception = "none"
    /\ events = <<>>
    /\ completed = <<>>
    /\ result = NoResult
    /\ region \in Regions
    /\ fs \in {InitialFs(v, old) : v \in TemplateVariants, old \in BOOLEAN}
    /\ fs_before = fs
    /\ dest_writable \in BOOLEAN

NextConf ==
    \/ update_global_conf
    \/ replace_sx1301_global_conf_with_regional
    \/ replace_sx1302_global_conf_with_regional

SpecConf == InitConf /\ [][NextConf]_vars

\* a caller about to start the concentrator, global_conf.json materialized
\* by an earlier call or not
InitLaunch ==
    /\ pc = "Idle"
    /\ fn = "none"
    /\ is_sx1302 \in BOOLEAN
    /\ spi_bus \in SpiBuses
    /\ reset_lgw_pin = 17
    /\ attempt_number = 0
    /\ reset_calls = 0
    /\ exception = "none"
    /\ events = <<>>
    /\ completed = <<>>
    /\ result = NoResult
    /\ region = "EU868"
    /\ fs \in {InitialFs("full", old) : old \in BOOLEAN}
    /\ fs_before = fs
    /\ dest_writable = TRUE

SpecLaunch == InitLaunch /\ [][Next]_vars

(* The steps inside one call of retry_start_concentrator.  Each is a step  *)
(* of sequential code or a blocking subprocess call that returns or        *)
(* raises, so a step that stays enabled is eventually taken.               *)

RetrySteps ==
    \/ run_reset_lgw_stop
    \/ run_reset_lgw_start
    \/ start_lora_pkt_fwd
    \/ retry_return
    \/ retry_stop
    \/ before_sleep
    \/ retry_sleep

FairSpec == Init /\ [][Next]_vars /\ WF_vars(RetrySteps)

----------------------------------------------------------------------------
(* Vocabulary of the properties *)

InRetry == fn = "retry_start_concentrator"

IsStop(e) == e.op = "run" /\ Len(e.argv) = 3 /\ e.argv[2] = "stop"
IsStart(e) == e.op = "run" /\ Len(e.argv) = 3 /\ e.argv[2] = "start"
IsLaunch(e) == e.op = "run" /\ Len(e.argv) = 1

StopIdx == {i \in DOMAIN events : IsStop(events[i])}
StartIdx == {i \in DOMAIN events : IsStart(events[i])}
LaunchIdx == {i \in DOMAIN events : IsLaunch(events[i])}
SleepIdx == {i \in DOMAIN events : events[i].op = "sleep"}
LogIdx == {i \in DOMAIN events : events[i].op = "log"}
\* the subprocess runs that raised: one per failed attempt
RaisedIdx == {i \in DOMAIN events : events[i].op = "run" /\ events[i].exc # "none"}

Terminal == pc \in {"Success", "Failed"}

----------------------------------------------------------------------------
\* C1: run_reset_lgw is entered exactly once per attempt (one "stop"
\* invocation per attempt started), and the attempt number never exceeds
\* LORA_PKT_FWD_MAX_TRIES = 5, so at most 5 resets precede the failure.
C1_ResetOncePerAttempt ==
    InRetry =>
        /\ attempt_number \in 1..5
        /\ reset_calls = IF pc = "Resetting" THEN attempt_number - 1
                         ELSE attempt_number
        /\ Cardinality(StopIdx) = reset_calls
        /\ pc = "Failed" => reset_calls <= 5

C1_Witness ==
    /\ InRetry
    /\ pc = "Failed"
    /\ attempt_number = 5
    /\ reset_calls = 5

\* C2: when the call has ended in Failed an error has been raised to the
\* caller after 5 failed attempts; the call returns normally only in
\* Success, and only when the forwarder subprocess call of the last attempt
\* returned; an exhausted failed attempt can only step to Failed.
C2_Inv ==
    InRetry =>
        /\ pc = "Failed" =>
            /\ result = [kind |-> "raise", value |-> "RetryError"]
            /\ Cardinality(RaisedIdx) = 5
            /\ \A i \in LaunchIdx : events[i].exc # "none"
        /\ result.kind = "return" =>
            /\ pc = "Success"
            /\ IsLaunch(events[Len(events)])
            /\ events[Len(events)].exc = "none"
            /\ completed[3].started
        /\ pc = "Success" => result = [kind |-> "return", value |-> "None"]
        /\ (result.kind = "none") = ~Terminal

C2_Step ==
    (InRetry /\ pc = "AttemptDone" /\ exception # "none" /\ attempt_number = 5)
        => (pc' = "Failed" /\ result'.kind = "raise")

C2_FailurePropagates == [](C2_Inv) /\ [][C2_Step]_vars

C2_Witness ==
    /\ InRetry
    /\ pc = "Failed"
    /\ result.kind = "raise"
    /\ Cardinality(LaunchIdx) = 0

\* C3: when the call has ended and the forwarder launch was reached and
\* raised in every attempt, there were exactly 5 reset invocations and
\* exactly 4 sleeps, each of 2 seconds, and the call ended in a raised error.
C3_AlwaysFailingLaunch ==
    (/\ InRetry
     /\ Terminal
     /\ Cardinality(LaunchIdx) = Cardinality(StopIdx)
     /\ \A i \in LaunchIdx : events[i].exc # "none")
        =>
        /\ reset_calls = 5
        /\ Cardinality(StopIdx) = 5
        /\ Cardinality(StartIdx) = 5
        /\ Cardinality(LaunchIdx) = 5
        /\ Cardinality(SleepIdx) = 4
        /\ \A i \in SleepIdx : events[i].seconds = 2
        /\ pc = "Failed"
        /\ result.kind = "raise"

C3_Witness ==
    /\ InRetry
    /\ pc = "Failed"
    /\ Cardinality(LaunchIdx) = 5
    /\ \A i \in LaunchIdx : events[i].exc # "none"

\* C4: when the forwarder call first returns in attempt k (attempts 1..k-1
\* having failed), exactly k resets and k-1 sleeps have happened, the call
\* goes to Success without another event, and nothing happens after Success.
C4_Inv ==
    (InRetry /\ \E i \in LaunchIdx : events[i].exc = "none") =>
        /\ pc \in {"AttemptDone", "Success"}
        /\ attempt_number \in 1..5
        /\ reset_calls = attempt_number
        /\ Cardinality(StopIdx) = attempt_number
        /\ Cardinality(SleepIdx) = attempt_number - 1
        /\ Cardinality(RaisedIdx) = attempt_number - 1
        /\ Cardinality({i \in LaunchIdx : events[i].exc = "none"}) = 1
        /\ IsLaunch(events[Len(events)])

C4_Step ==
    /\ (InRetry /\ pc = "AttemptDone" /\ exception = "none")
        => (pc' = "Success" /\ result'.kind = "return"
            /\ UNCHANGED <<events, reset_calls, attempt_number>>)
    /\ pc # "Success"

C4_SuccessOnAttemptK == [](C4_Inv) /\ [][C4_Step]_vars

C4_Witness ==
    /\ InRetry
    /\ pc = "Success"
    /\ attempt_number = 3
    /\ reset_calls = 3
    /\ Cardinality(SleepIdx) = 2

\* C5: every sleep lasts exactly 2 seconds and stands between two
\* consecutive attempts: none before the first attempt, exactly one between
\* two consecutive attempts, none after the last attempt.
C5_BackoffBetweenAttempts ==
    InRetry =>
        /\ \A i \in SleepIdx :
            /\ events[i].seconds = 2
            /\ \E j \in StopIdx : j < i
            /\ IF i = Len(events) THEN pc = "Resetting"
               ELSE IsStop(events[i + 1])
        /\ \A j \in StopIdx : \A k \in StopIdx :
            (j < k /\ ~\E m \in StopIdx : j < m /\ m < k)
                => Cardinality({i \in SleepIdx : j < i /\ i < k}) = 1
        /\ Cardinality(SleepIdx) =
             IF pc = "Resetting" THEN Cardinality(StopIdx)
             ELSE Cardinality(StopIdx) - 1

C5_Witness ==
    /\ InRetry
    /\ pc = "Failed"
    /\ Cardinality(SleepIdx) = 4
    /\ events[Len(events)].op = "run"

\* C6 as stated: every failed attempt n in 1..5 has a log event of its own,
\* so once the decorator has handled the failures there are as many log
\* events as failed attempts.
C6_EveryFailedAttemptLogged ==
    (InRetry /\ pc # "AttemptDone") =>
        Cardinality(LogIdx) = Cardinality(RaisedIdx)

\* C6 amended: every failed attempt that is followed by a retry (attempts
\* 1..4) is logged once, right after the run that raised and right before
\* its backoff sleep, with the sleep's duration and the exception raised;
\* the fifth failed attempt is not logged, it ends the call in Failed.
C6_LoggedBeforeBackoff ==
    InRetry =>
        /\ \A i \in SleepIdx :
            /\ i > 2
            /\ events[i - 1].op = "log"
            /\ events[i - 1].seconds = events[i].seconds
            /\ (i - 2) \in RaisedIdx
            /\ events[i - 1].exc = events[i - 2].exc
        /\ \A i \in LogIdx :
            /\ (i - 1) \in RaisedIdx
            /\ IF i = Len(events) THEN pc = "BackingOff"
               ELSE events[i + 1].op = "sleep"
        /\ \A i \in RaisedIdx :
            \/ i = Len(events) /\ pc \in {"AttemptDone", "Failed"}
            \/ i < Len(events) /\ events[i + 1].op = "log"
        /\ pc = "Failed" =>
            /\ Cardinality(LogIdx) = 4
            /\ events[Len(events)].op = "run"

C6_Witness ==
    /\ InRetry
    /\ pc = "Failed"
    /\ Cardinality(RaisedIdx) = 5
    /\ Cardinality(LogIdx) = 4

\* C7: an attempt fails only when a subprocess could not be started; once
\* the forwarder subprocess call has returned, whatever its exit status, no
\* exception is pending, the call goes to Success, and no reset, sleep, log
\* or retry follows.
C7_Inv ==
    InRetry =>
        /\ (Len(completed) = 3 /\ completed[3].started) =>
            /\ exception = "none"
            /\ pc \in {"AttemptDone", "Success"}
            /\ events[Len(events)].exc = "none"
            /\ IsLaunch(events[Len(events)])
        /\ (pc \in {"AttemptDone", "BackingOff", "Failed"} /\ exception # "none") =>
            ~completed[Len(completed)].started
        /\ pc = "Success" => (Len(completed) = 3 /\ completed[3].started)

C7_Step ==
    (InRetry /\ Len(completed) = 3 /\ completed[3].started) =>
        /\ pc' = "Success"
        /\ UNCHANGED <<events, attempt_number, reset_calls, completed>>

C7_OnlyLaunchFailuresCount == [](C7_Inv) /\ [][C7_Step]_vars

C7_Witness ==
    /\ InRetry
    /\ pc = "Success"
    /\ completed[3].returncode # 0

\* C8: the reset runs the script of the chip version twice, "stop" then
\* "start", each with the pin as a decimal string; whatever the two exit
\* statuses, "start" follows "stop", the reset returns and the forwarder
\* launch of that attempt follows.
ExpectedPinStr == (0 :> "0") @@ (17 :> "17")

ExpectedResetScript ==
    IF is_sx1302 THEN "/opt/iotloragateway/packet_forwarder/sx1302/tools/reset_lgw.sh"
    ELSE "/opt/iotloragateway/packet_forwarder/reset_lgw.sh"

C8_Inv ==
    InRetry =>
        /\ \A i \in StopIdx :
            /\ events[i].argv =
                 <<ExpectedResetScript, "stop", ExpectedPinStr[reset_lgw_pin]>>
            /\ IF i = Len(events) THEN pc \in {"ResettingStart", "AttemptDone", "Failed"}
               ELSE IF events[i].exc = "none" THEN IsStart(events[i + 1])
               ELSE events[i + 1].op = "log"
        /\ \A i \in StartIdx :
            /\ events[i].argv =
                 <<ExpectedResetScript, "start", ExpectedPinStr[reset_lgw_pin]>>
            /\ (i - 1) \in StopIdx
            /\ IF i = Len(events) THEN pc \in {"Launching", "AttemptDone", "Failed"}
               ELSE IF events[i].exc = "none" THEN IsLaunch(events[i + 1])
               ELSE events[i + 1].op = "log"
        /\ \A i \in LaunchIdx : (i - 1) \in StartIdx /\ (i - 2) \in StopIdx
        /\ (Len(completed) = 1 /\ completed[1].started) => pc = "ResettingStart"
        /\ (Len(completed) = 2 /\ completed[2].started) =>
            (pc = "Launching" /\ exception = "none")

C8_Step ==
    /\ (InRetry /\ pc = "ResettingStart") =>
           (IsStart(events'[Len(events')]) /\ Len(events') = Len(events) + 1)
    /\ (InRetry /\ pc = "Launching") =>
           (IsLaunch(events'[Len(events')]) /\ Len(events') = Len(events) + 1)

C8_ResetIgnoresExitCodes == [](C8_Inv) /\ [][C8_Step]_vars

C8_Witness ==
    /\ InRetry
    /\ Len(completed) = 3
    /\ completed[1].started /\ completed[1].returncode # 0
    /\ completed[2].started /\ completed[2].returncode # 0
    /\ IsLaunch(events[Len(events)])

\* C9: a subprocess that cannot be started ("stop", "start" or the
\* forwarder) fails its attempt with an exception; before attempt 5 the
\* failure is logged, followed by a sleep of 2 seconds and a new attempt
\* starting at the reset; at attempt 5 the call ends in Failed with an error
\* raised to the caller.
C9_Inv ==
    InRetry =>
        /\ (Len(completed) > 0 /\ ~completed[Len(completed)].started) =>
            /\ exception = "OSError"
            /\ pc \in {"AttemptDone", "BackingOff", "Failed"}
            /\ Len(events) > 0
            /\ LET last == IF pc = "BackingOff" THEN Len(events) - 1
                           ELSE Len(events) IN
               /\ events[last].op = "run"
               /\ events[last].exc = "OSError"
               /\ Len(completed) = 1 => IsStop(events[last])
               /\ Len(completed) = 2 => IsStart(events[last])
               /\ Len(completed) = 3 => IsLaunch(events[last])
        /\ pc = "Failed" =>
            /\ result = [kind |-> "raise", value |-> "RetryError"]
            /\ attempt_number = 5

C9_Step ==
    /\ (InRetry /\ pc = "AttemptDone" /\ exception # "none") =>
        IF attempt_number < 5
        THEN /\ pc' = "BackingOff"
             /\ events'[Len(events')].op = "log"
             /\ attempt_number' = attempt_number
        ELSE /\ pc' = "Failed"
             /\ result'.kind = "raise"
             /\ events' = events
    /\ (InRetry /\ pc = "BackingOff") =>
        /\ pc' = "Resetting"
        /\ attempt_number' = attempt_number + 1
        /\ events' = Append(events, Event("sleep", <<>>, 2, ""))

C9_TransientLaunchFailures == [](C9_Inv) /\ [][C9_Step]_vars

C9_Witness ==
    /\ InRetry
    /\ pc = "Failed"
    /\ \E i \in StopIdx : events[i].exc = "OSError"
    /\ \E i \in StartIdx : events[i].exc = "OSError"
    /\ \E i \in LaunchIdx : events[i].exc = "OSError"

\* C10: is_concentrator_sx1302 always returns, never raises: True exactly
\* when the diagnostic ran and exited with status 0, False for every other
\* exit status and when the diagnostic could not be started.
C10_ChipDetectorTotal ==
    fn = "is_concentrator_sx1302" =>
        /\ pc = "Returned"
        /\ result.kind = "return"
        /\ result.value \in {"True", "False"}
        /\ (result.value = "True") =
             (completed[1].started /\ completed[1].returncode = 0)
        /\ events = <<Event("run",
                <<"/opt/iotloragateway/packet_forwarder/sx1302/util_chip_id/chip_id",
                  "-d",
                  IF spi_bus = "spidev0.0" THEN "/dev/spidev0.0"
                  ELSE "/dev/spidev1.2">>,
                0,
                IF ~completed[1].started THEN "OSError"
                ELSE IF completed[1].returncode = 0 THEN "none"
                ELSE "CalledProcessError")>>

C10_Witness ==
    /\ fn = "is_concentrator_sx1302"
    /\ ~completed[1].started
    /\ result = [kind |-> "return", value |-> "False"]

\* C15: every forwarder launch is directly preceded, in its own attempt, by
\* a "stop" and a "start" invocation that both returned; two launches are
\* never adjacent; control reaches Launching only from the "start"
\* invocation, and a retry goes from the backoff to Resetting.
C15_Inv ==
    InRetry =>
        /\ \A i \in LaunchIdx :
            /\ i >= 3
            /\ IsStart(events[i - 1]) /\ events[i - 1].exc = "none"
            /\ IsStop(events[i - 2]) /\ events[i - 2].exc = "none"
        /\ pc = "Launching" =>
            /\ Len(events) >= 2
            /\ IsStart(events[Len(events)])
            /\ IsStop(events[Len(events) - 1])
        /\ pc = "Resetting" =>
            (events = <<>> \/ events[Len(events)].op = "sleep")

C15_Step ==
    /\ pc' = "Launching" => pc = "ResettingStart"
    /\ pc = "BackingOff" => pc' = "Resetting"
    /\ pc' = "Resetting" => pc \in {"Idle", "BackingOff"}

C15_LaunchPrecededByReset == [](C15_Inv) /\ [][C15_Step]_vars

C15_Witness ==
    /\ InRetry
    /\ attempt_number = 2
    /\ Cardinality(LaunchIdx) = 2
    /\ IsLaunch(events[Len(events)])

\* C17: in one run every reset invocation uses the reset script of the chip
\* version and the same pin string, every launch uses the forwarder of the
\* chip version (generation A: <dir>/lora_pkt_fwd_<bus>), the arguments
\* never change, and from one attempt to the next only the attempt counter
\* (with the per-attempt exception and subprocess answers) changes.
ExpectedForwarder ==
    IF is_sx1302
    THEN "/opt/iotloragateway/packet_forwarder/sx1302/packet_forwarder/lora_pkt_fwd"
    ELSE IF spi_bus = "spidev0.0"
    THEN "/opt/iotloragateway/packet_forwarder/sx1301/lora_pkt_fwd_spidev0.0"
    ELSE "/opt/iotloragateway/packet_forwarder/sx1301/lora_pkt_fwd_spidev1.2"

C17_Inv ==
    InRetry =>
        /\ \A i \in StopIdx \cup StartIdx :
            /\ events[i].argv[1] = ExpectedResetScript
            /\ events[i].argv[3] = ExpectedPinStr[reset_lgw_pin]
        /\ \A i \in LaunchIdx : events[i].argv = <<ExpectedForwarder>>
        /\ \A i \in DOMAIN events :
            events[i].op = "run" => (IsStop(events[i]) \/ IsStart(events[i])
                                     \/ IsLaunch(events[i]))

C17_Step ==
    /\ UNCHANGED conf_vars
    /\ UNCHANGED <<is_sx1302, spi_bus, reset_lgw_pin>>
    /\ pc = "BackingOff" =>
        /\ attempt_number' = attempt_number + 1
        /\ UNCHANGED <<fn, reset_calls, result>>
        /\ SubSeq(events', 1, Len(events)) = events

C17_InputsConstantAcrossAttempts == [](C17_Inv) /\ [][C17_Step]_vars

C17_Witness ==
    /\ InRetry
    /\ ~is_sx1302
    /\ spi_bus = "spidev1.2"
    /\ attempt_number = 3
    /\ Cardinality(LaunchIdx) = 3

\* C18: when the "stop" invocation raises, the attempt has no "start" and
\* no launch; when the "start" invocation raises, the attempt has no
\* launch; either way the attempt is one of the at most 5: the attempts
\* before the current one each hold exactly one run that raised.
C18_ResetFailureSkipsRest ==
    InRetry =>
        /\ \A i \in StopIdx \cup StartIdx :
            (events[i].exc # "none" /\ i < Len(events)) =>
                /\ events[i + 1].op = "log"
                /\ (i + 2 <= Len(events)) => events[i + 2].op = "sleep"
                /\ (i + 3 <= Len(events)) => IsStop(events[i + 3])
        /\ \A i \in StopIdx \cup StartIdx :
            (events[i].exc # "none" /\ i = Len(events)) =>
                /\ pc \in {"AttemptDone", "Failed"}
                /\ Len(completed) = IF IsStop(events[i]) THEN 1 ELSE 2
        /\ Cardinality(RaisedIdx) =
             IF pc \in {"AttemptDone", "BackingOff", "Failed"} /\ exception # "none"
             THEN attempt_number ELSE attempt_number - 1
        /\ Cardinality(RaisedIdx) <= 5

C18_Witness ==
    /\ InRetry
    /\ pc = "Failed"
    /\ \A i \in RaisedIdx : IsStop(events[i]) \/ IsStart(events[i])
    /\ \E i \in RaisedIdx : IsStop(events[i])
    /\ \E i \in RaisedIdx : IsStart(events[i])
    /\ LaunchIdx = {}

\* C14: when every subprocess invocation returns or raises, a call of
\* retry_start_concentrator always ends: it reaches Success or Failed (one
\* of them, never both), and no step leaves either of them.
C14_Terminates ==
    /\ InRetry ~> Terminal
    /\ [][Terminal => (pc' = pc /\ result' = result)]_vars
    /\ [](~(pc = "Success" /\ result.kind = "raise")
          /\ ~(pc = "Failed" /\ result.kind = "return"))

C14_Witness ==
    /\ InRetry
    /\ pc = "Success"
    /\ attempt_number = 5
    /\ Cardinality(RaisedIdx) = 4

----------------------------------------------------------------------------
(* Vocabulary of the configuration properties *)

InConf == fn = "update_global_conf"

ConfEnded == InConf /\ pc \in {"Returned", "Raised"}

OpIdx(op) == {i \in DOMAIN events : events[i].op = op}

ExpectedFilename ==
    IF region = "EU868" THEN "EU-global_conf.json" ELSE "US-global_conf.json"

ExpectedTemplatePath ==
    IF is_sx1302
    THEN "/opt/iotloragateway/packet_forwarder/sx1302/lora_templates_sx1302/"
            \o ExpectedFilename
    ELSE "/opt/iotloragateway/packet_forwarder/sx1301/lora_templates_sx1301/"
            \o ExpectedFilename

ExpectedRootGlobalConf == "/opt/iotloragateway/packet_forwarder/global_conf.json"

ExpectedSx1302GlobalConf ==
    "/opt/iotloragateway/packet_forwarder/sx1302/lora_templates_sx1302/global_conf.json"

ExpectedComDir ==
    IF spi_bus = "spidev0.0" THEN "/dev/spidev0.0" ELSE "/dev/spidev1.2"

\* C11: a call of update_global_conf resolves the region once, reads the
\* template at most once and writes at most once, never sleeps or logs a
\* retry, and ends at once: an error (unknown region, missing or malformed
\* template, unwritable destination) is raised to the caller from that one
\* pass.  A region outside the table raises KeyError before any file is
\* touched; a region of the table yields exactly its filename.
C11_Inv ==
    ConfEnded =>
        /\ Cardinality(OpIdx("lookup")) = 1
        /\ Cardinality(OpIdx("read") \cup OpIdx("copyfile")) <= 1
        /\ Cardinality(OpIdx("write")) <= 1
        /\ OpIdx("sleep") \cup OpIdx("log") \cup OpIdx("run") = {}
        /\ attempt_number = 0
        /\ (pc = "Raised") = (exception # "none")
        /\ pc = "Raised" => result = [kind |-> "raise", value |-> exception]
        /\ region \notin {"EU868", "US915"} =>
            /\ result = [kind |-> "raise", value |-> "KeyError"]
            /\ events = <<Event("lookup", <<region>>, 0, "KeyError")>>
        /\ region \in {"EU868", "US915"} =>
            /\ events[1] = Event("lookup", <<region>>, 0, "none")
            /\ Len(events) >= 2
            /\ events[2].argv[1] = ExpectedTemplatePath
            /\ ~fs_before[ExpectedTemplatePath].exists =>
                  result = [kind |-> "raise", value |-> "FileNotFoundError"]
            /\ (is_sx1302 /\ fs_before[ExpectedTemplatePath].exists
                /\ ~fs_before[ExpectedTemplatePath].json) =>
                  result = [kind |-> "raise", value |-> "JSONDecodeError"]
            /\ (~dest_writable /\ pc = "Returned") => FALSE

C11_Step == ~ConfEnded

C11_ConfigErrorsFatal == [](C11_Inv) /\ [][C11_Step]_vars

C11_Witness ==
    /\ InConf
    /\ pc = "Raised"
    /\ region = "XX000"
    /\ result.value = "KeyError"

\* C12: after a successful generation-B materialization the written
\* document has the template's top-level keys, every top-level value other
\* than SX130x_conf as in the template, every member of SX130x_conf other
\* than com_dir as in the template, and com_dir equal to "/dev/<bus>".
C12_OnlyComDirDiffers ==
    (InConf /\ is_sx1302 /\ pc = "Returned") =>
        LET template == fs_before[ExpectedTemplatePath]
            written == fs[ExpectedSx1302GlobalConf]
            section(doc) == {q \in doc : q[1] = "SX130x_conf"}
            members(doc) == UNION {q[2].members : q \in section(doc)}
        IN  /\ written.exists /\ written.json
            /\ {q[1] : q \in written.doc} = {q[1] : q \in template.doc}
            /\ written.doc \ section(written.doc)
                 = template.doc \ section(template.doc)
            /\ Cardinality(section(written.doc)) = 1
            /\ \A q \in section(written.doc) : q[2].isobj /\ q[2].scalar = ""
            /\ {m \in members(written.doc) : m[1] # "com_dir"}
                 = {m \in members(template.doc) : m[1] # "com_dir"}
            /\ {m \in members(written.doc) : m[1] = "com_dir"}
                 = {<<"com_dir", ExpectedComDir>>}

C12_Witness ==
    /\ InConf
    /\ is_sx1302
    /\ pc = "Returned"
    /\ spi_bus = "spidev1.2"
    /\ <<"com_dir", "/dev/spidev0.0">> \in
         UNION {q[2].members : q \in fs_before[ExpectedTemplatePath].doc}

\* C13: a successful update_global_conf changes one file only: generation A
\* makes <root>/global_conf.json the same bytes as the region's template,
\* generation B writes <generation-B-dir>/global_conf.json; every other
\* file, the templates included, is as before.
C13_OneDestination ==
    (InConf /\ pc = "Returned") =>
        LET dest == IF is_sx1302 THEN ExpectedSx1302GlobalConf
                    ELSE ExpectedRootGlobalConf
        IN  /\ \A p \in DOMAIN fs : p # dest => fs[p] = fs_before[p]
            /\ fs[ExpectedTemplatePath] = fs_before[ExpectedTemplatePath]
            /\ fs[dest].exists
            /\ ~is_sx1302 => fs[dest] = fs_before[ExpectedTemplatePath]
            /\ is_sx1302 =>
                /\ fs[dest].fmt = "one-line"
                /\ OpIdx("write") = {3}
                /\ events[3].argv = <<ExpectedSx1302GlobalConf>>
                /\ OpIdx("copyfile") = {}
            /\ ~is_sx1302 =>
                /\ OpIdx("copyfile") = {2}
                /\ events[2].argv = <<ExpectedTemplatePath, ExpectedRootGlobalConf>>
                /\ OpIdx("write") \cup OpIdx("read") = {}

C13_Witness ==
    /\ InConf
    /\ pc = "Returned"
    /\ ~is_sx1302
    /\ fs_before[ExpectedRootGlobalConf].exists
    /\ fs_before[ExpectedSx1302GlobalConf].exists
    /\ fs[ExpectedRootGlobalConf] # fs_before[ExpectedRootGlobalConf]

\* C16: during a call of retry_start_concentrator no file is read or
\* written: the only events are subprocess runs, retry logs and sleeps, and
\* every file is as it was when the call was made.
C16_Inv ==
    InRetry =>
        /\ fs = fs_before
        /\ \A i \in DOMAIN events : events[i].op \in {"run", "log", "sleep"}

C16_Step == UNCHANGED <<fs, region, dest_writable>>

C16_NoRematerialization == [](C16_Inv) /\ [][C16_Step]_vars

C16_Witness ==
    /\ InRetry
    /\ pc = "Failed"
    /\ attempt_number = 5
    /\ Cardinality(LaunchIdx) >= 2
    /\ fs[ExpectedSx1302GlobalConf].exists
    /\ fs[ExpectedRootGlobalConf].exists

\* C19: when update_global_conf fails because the region is unknown, the
\* template is missing, the template is not valid JSON, or (generation B)
\* the template has no SX130x_conf object, both global_conf.json files, and
\* every other file, are as before the call, present or absent.
C19_FailureLeavesConfig ==
    (InConf /\ pc = "Raised"
     /\ exception \in {"KeyError", "FileNotFoundError", "JSONDecodeError",
                       "TypeError"})
        =>
        /\ fs[ExpectedRootGlobalConf] = fs_before[ExpectedRootGlobalConf]
        /\ fs[ExpectedSx1302GlobalConf] = fs_before[ExpectedSx1302GlobalConf]
        /\ fs = fs_before
        /\ OpIdx("write") = {}

C19_Witness ==
    /\ InConf
    /\ pc = "Raised"
    /\ ~is_sx1302
    /\ dest_writable
    /\ exception = "FileNotFoundError"
    /\ fs[ExpectedRootGlobalConf].exists

====
